---- MODULE Spec2Model ----
(***************************************************************************)
(* Model of the resilient streaming-completion core of build-system:       *)
(*   - retry_with_backoff  (openai-streaming-client/src/error_handler.py)  *)
(*   - timeout / create_completion / get_prompt / main                     *)
(*                     (.reference/inference_example/inference_request.py) *)
(*   - OpenAIClient.stream_completion / main                               *)
(*                     (openai-streaming-client/src/main.py)               *)
(* Strings are sequences of one-character strings; time is abstracted to   *)
(* "the alarm has / has not gone off yet".                                 *)
(***************************************************************************)
EXTENDS Integers, Sequences, FiniteSets, TLC

VARIABLES
    \* ---- retry_with_backoff ----
    max_retries,    \* argument max_retries
    base_delay,     \* argument base_delay
    max_delay,      \* argument max_delay
    retries,        \* local retries
    delay,          \* local delay
    rpc,            \* position inside retry_with_backoff
    caught,         \* the RetryableError bound to `error` in the except block
    trace,          \* observable effects in order: func() calls, time.sleep calls
    logs,           \* messages passed to logging.warning
    outcome,        \* how the call ended: returned value or raised exception
    \* ---- create_completion ----
    cpc,            \* position inside create_completion
    full_response,  \* local full_response (the accumulator)
    sink,           \* bytes of response.txt that reached the file
    sinkBuf,        \* text written to response_file but not flushed yet
    fileOpen,       \* response_file is open
    alarm,          \* state of the process alarm: "unset", "armed", "fired", "cancelled"
    delivered,      \* chunks the channel has delivered so far, in order
    eos,            \* the channel has signalled end-of-stream
    stalled,        \* the peer has gone silent for good
    chunk,          \* loop variable chunk
    after,          \* what control does once the blocks being left are unwound
    result,         \* value returned by create_completion
    accAtExpiry,    \* Len(full_response) when the alarm went off (-1: not yet)
    sinkAtExpiry,   \* Len(sink \o sinkBuf) when the alarm went off (-1: not yet)
    anomalies,      \* number of "Error processing chunk" reports printed
    earlier,        \* what response.txt held before this call
    \* ---- main of inference_request.py ----
    mpc,            \* position inside main
    promptFile,     \* prompt.txt: whether it can be read, and its text
    prompt,         \* local prompt
    report,         \* the diagnostic main printed
    \* ---- two timeout() blocks, one nested in the other ----
    now,            \* seconds elapsed
    alarmAt,        \* when the process alarm is due (0: no alarm pending)
    handler,        \* the block whose _handle_timeout is installed (0: none)
    tpc,            \* position of each block
    seconds,        \* argument seconds of each block
    enteredAt,      \* when each block was entered
    \* ---- two runs writing response.txt at the same time ----
    wpc,            \* position of each run
    wfile,          \* contents of response.txt
    woff,           \* file offset of each run's response_file
    wtext,          \* text each run has written through its response_file
    \* ---- OpenAIClient.stream_completion and main of main.py ----
    gpc,            \* position inside the generator and its consumer
    gchunks,        \* chunks the response has delivered so far
    gchunk,         \* loop variable chunk of the generator
    gfailed,        \* the request or the iteration raised
    yielded,        \* items the generator has yielded, in order
    echoed          \* text main has printed

retryVars == <<max_retries, base_delay, max_delay, retries, delay, rpc, caught,
               trace, logs, outcome>>
complVars == <<cpc, full_response, sink, sinkBuf, fileOpen, alarm, delivered,
               eos, stalled, chunk, after, result, accAtExpiry, sinkAtExpiry,
               anomalies, earlier>>
mainVars == <<mpc, promptFile, prompt, report>>
nestVars == <<now, alarmAt, handler, tpc, seconds, enteredAt>>
sinkVars == <<wpc, wfile, woff, wtext>>
streamVars == <<gpc, gchunks, gchunk, gfailed, yielded, echoed>>
vars == <<max_retries, base_delay, max_delay, retries, delay, rpc, caught,
          trace, logs, outcome,
          cpc, full_response, sink, sinkBuf, fileOpen, alarm, delivered,
          eos, stalled, chunk, after, result, accAtExpiry, sinkAtExpiry,
               anomalies, earlier,
          mpc, promptFile, prompt, report,
          now, alarmAt, handler, tpc, seconds, enteredAt,
          wpc, wfile, woff, wtext,
          gpc, gchunks, gchunk, gfailed, yielded, echoed>>

(***************************************************************************)
(* Bounds of the model                                                     *)
(***************************************************************************)
MaxRetriesBound == 3
MaxBaseDelay == 2
MaxCapDelay == 4
MaxChunks == 3
MaxSeconds == 3
MaxTime == 5
MaxWrites == 2

\* default of the max_delay parameter
DefaultMaxDelay == 60

Min(a, b) == IF a <= b THEN a ELSE b

RECURSIVE Pow2(_)
Pow2(n) == IF n <= 0 THEN 1 ELSE 2 * Pow2(n - 1)

(***************************************************************************)
(* Values shared by the two components' initial states                     *)
(***************************************************************************)
NoRes == [kind |-> "none", val |-> "-"]
NoOutcome == [kind |-> "running", val |-> "-"]
NoChunk == [kind |-> "empty", content |-> <<>>]
NotReturned == [kind |-> "running", val |-> <<>>]

\* retry_with_backoff is not being called
RetryParked ==
    /\ max_retries = 0
    /\ base_delay = 0
    /\ max_delay = 0
    /\ retries = 0
    /\ delay = 0
    /\ rpc = "parked"
    /\ caught = NoRes
    /\ trace = <<>>
    /\ logs = <<>>
    /\ outcome = NoOutcome

\* create_completion is not being called
ComplParked ==
    /\ cpc = "parked"
    /\ full_response = <<>>
    /\ sink = <<>>
    /\ sinkBuf = <<>>
    /\ fileOpen = FALSE
    /\ alarm = "unset"
    /\ delivered = <<>>
    /\ eos = FALSE
    /\ stalled = FALSE
    /\ chunk = NoChunk
    /\ after = "none"
    /\ result = NotReturned
    /\ accAtExpiry = -1
    /\ sinkAtExpiry = -1
    /\ anomalies = 0
    /\ earlier = <<>>

\* main of inference_request.py is not running
MainParked ==
    /\ mpc = "parked"
    /\ promptFile = [readable |-> FALSE, text |-> <<>>]
    /\ prompt = NotReturned
    /\ report = "none"

\* no timeout() block has been entered
NestParked ==
    /\ now = 0
    /\ alarmAt = 0
    /\ handler = 0
    /\ tpc = [i \in 1..2 |-> "parked"]
    /\ seconds = [i \in 1..2 |-> 0]
    /\ enteredAt = [i \in 1..2 |-> 0]

\* no run is writing response.txt
SinkParked ==
    /\ wpc = [i \in 1..2 |-> "parked"]
    /\ wfile = <<>>
    /\ woff = [i \in 1..2 |-> 0]
    /\ wtext = [i \in 1..2 |-> <<>>]

\* stream_completion is not being consumed
StreamParked ==
    /\ gpc = "parked"
    /\ gchunks = <<>>
    /\ gchunk = NoChunk
    /\ gfailed = FALSE
    /\ yielded = <<>>
    /\ echoed = <<>>

(***************************************************************************)
(* retry_with_backoff                                                      *)
(***************************************************************************)
\* what one invocation of func() can do: return a value, raise a
\* RetryableError, or raise some other exception
FuncResults ==
    [kind : {"ok"}, val : {"v1", "v2"}]
        \cup [kind : {"RetryableError"}, val : {"r1"}]
        \cup [kind : {"OtherError"}, val : {"x1", "x2"}]

\* the literal (non-interpolated) message strings of the source
WarningMsg == "Attempt {retries + 1} failed: {error}"
ExhaustedMsg == "Function failed after {max_retries} attempts"

LoopGuardInclusive(r, m) == r <= m
\* while retries < max_retries
LoopGuard(r, m) == r < m

CatchesAll(res) == res.kind # "ok"
\* except RetryableError as error
Catches(res) == res.kind = "RetryableError"

ReturnedNone(res) == "None"
\* return func()
Returned(res) == res.val

NextDelayNoCap(d, cap) == d * 2
\* delay = min(delay * 2, max_delay)
NextDelay(d, cap) == Min(d * 2, cap)

CallEv(res) == [ev |-> "call", d |-> 0, res |-> res]
SleepEv(d) == [ev |-> "sleep", d |-> d, res |-> NoRes]

\* the state before the call
RetryInit ==
    /\ ComplParked
    /\ MainParked /\ NestParked /\ SinkParked /\ StreamParked
    /\ max_retries \in 0..MaxRetriesBound
    /\ base_delay \in -1..MaxBaseDelay
    /\ max_delay \in (-1..MaxCapDelay) \cup {DefaultMaxDelay}
    /\ retries = 0
    /\ delay = base_delay
    /\ rpc = "loop"
    /\ caught = NoRes
    /\ trace = <<>>
    /\ logs = <<>>
    /\ outcome = NoOutcome

\* one pass through `try: return func()`
Attempt ==
    /\ rpc = "loop"
    /\ LoopGuard(retries, max_retries)
    /\ \E res \in FuncResults :
        /\ trace' = Append(trace, CallEv(res))
        /\ IF res.kind = "ok"
             THEN /\ outcome' = [kind |-> "returned", val |-> Returned(res)]
                  /\ rpc' = "done"
                  /\ caught' = caught
             ELSE IF Catches(res)
                    THEN /\ caught' = res
                         /\ rpc' = "log"
                         /\ outcome' = outcome
                    ELSE /\ outcome' = [kind |-> "raised", val |-> res.val]
                         /\ rpc' = "done"
                         /\ caught' = caught
    /\ UNCHANGED <<complVars, mainVars, nestVars, sinkVars, streamVars>>
    /\ UNCHANGED <<max_retries, base_delay, max_delay, retries, delay, logs>>

\* logging.warning("Attempt {retries + 1} failed: {error}")
LogWarning ==
    /\ rpc = "log"
    /\ logs' = Append(logs, WarningMsg)
    /\ rpc' = "sleep"
    /\ UNCHANGED <<complVars, mainVars, nestVars, sinkVars, streamVars>>
    /\ UNCHANGED <<max_retries, base_delay, max_delay, retries, delay, caught,
                   trace, outcome>>

\* time.sleep(delay); a negative argument raises ValueError, which leaves
\* the except block and the function
Sleep ==
    /\ rpc = "sleep"
    /\ IF delay < 0
         THEN /\ outcome' = [kind |-> "raised", val |-> "ValueError"]
              /\ rpc' = "done"
              /\ trace' = trace
         ELSE /\ trace' = Append(trace, SleepEv(delay))
              /\ rpc' = "backoff"
              /\ outcome' = outcome
    /\ UNCHANGED <<complVars, mainVars, nestVars, sinkVars, streamVars>>
    /\ UNCHANGED <<max_retries, base_delay, max_delay, retries, delay, caught,
                   logs>>

\* delay = min(delay * 2, max_delay); retries += 1
Backoff ==
    /\ rpc = "backoff"
    /\ delay' = NextDelay(delay, max_delay)
    /\ retries' = retries + 1
    /\ rpc' = "loop"
    /\ UNCHANGED <<complVars, mainVars, nestVars, sinkVars, streamVars>>
    /\ UNCHANGED <<max_retries, base_delay, max_delay, caught, trace, logs,
                   outcome>>

\* the loop condition is false: raise Exception("Function failed after ...")
Exhausted ==
    /\ rpc = "loop"
    /\ ~LoopGuard(retries, max_retries)
    /\ outcome' = [kind |-> "raised", val |-> ExhaustedMsg]
    /\ rpc' = "done"
    /\ UNCHANGED <<complVars, mainVars, nestVars, sinkVars, streamVars>>
    /\ UNCHANGED <<max_retries, base_delay, max_delay, retries, delay, caught,
                   trace, logs>>

RetryNext ==
    \/ Attempt
    \/ LogWarning
    \/ Sleep
    \/ Backoff
    \/ Exhausted

(***************************************************************************)
(* timeout / create_completion                                             *)
(***************************************************************************)
\* text carried by the chunks of the stream
Fragments == {<<"a">>, <<"b", "c">>}

\* a chunk either carries text, carries no content (no choices, no delta,
\* content None or ""), or is malformed so that reading it raises
Chunks ==
    [kind : {"text"}, content : Fragments]
        \cup [kind : {"empty", "bad"}, content : {<<>>}]

NoneValue == [kind |-> "None", val |-> <<>>]
StrValue(s) == [kind |-> "str", val |-> s]

\* statements of the inner try block (lines 46-51): a TimeoutException raised
\* here is an Exception and is caught by `except Exception as chunk_error`
InnerTry == {"extract", "accum", "write", "flush", "print"}

\* statements of the `with timeout(...)` block outside the inner try, and the
\* finally clause of timeout() before signal.alarm(0) has run
OuterTimed == {"create", "next", "chunk_error", "complete", "disarm"}

ChunkErrorAbort == "complete"
\* the except clause of the inner try ends inside the for loop, which goes
\* on with the next chunk
ChunkErrorNext == "next"

LeftArmed(a) == a
\* signal.alarm(0)
AlarmCancelled(a) == "cancelled"

OpenedForAppend(old) == old
\* open(..., "w"): the file is truncated
OpenedForWrite(old) == <<>>

AccumulatePrepend(acc, c) == c \o acc
\* full_response += chunk_content
Accumulate(acc, c) == acc \o c

TimeoutReturnPartial(acc) == StrValue(acc)
\* except TimeoutException: ... return None
TimeoutReturn(acc) == NoneValue

\* everything written through response_file, flushed or not
SinkText == sink \o sinkBuf

Expired == accAtExpiry >= 0

\* transcripts an earlier run can have left in response.txt
EarlierTranscripts == {<<>>, <<"z">>, <<"a", "b", "c">>}

\* the state before the call
ComplInit ==
    /\ RetryParked
    /\ MainParked /\ NestParked /\ SinkParked /\ StreamParked
    /\ cpc = "start"
    /\ full_response = <<>>
    /\ earlier \in EarlierTranscripts
    /\ sink = earlier
    /\ sinkBuf = <<>>
    /\ fileOpen = FALSE
    /\ alarm = "unset"
    /\ delivered = <<>>
    /\ eos = FALSE
    /\ stalled = FALSE
    /\ chunk = NoChunk
    /\ after = "none"
    /\ result = NotReturned
    /\ accAtExpiry = -1
    /\ sinkAtExpiry = -1
    /\ anomalies = 0

\* with open(".../response.txt", "w", encoding="utf-8") as response_file
OpenSink ==
    /\ cpc = "start"
    /\ \/ /\ sink' = OpenedForWrite(sink)
          /\ fileOpen' = TRUE
          /\ cpc' = "arm"
          /\ after' = after
       \/ /\ cpc' = "failed"
          /\ after' = "error"
          /\ UNCHANGED <<sink, fileOpen>>
    /\ UNCHANGED <<retryVars, mainVars, nestVars, sinkVars, streamVars>>
    /\ UNCHANGED <<stalled, anomalies, earlier>>
    /\ UNCHANGED <<full_response, sinkBuf, alarm, delivered, eos, chunk,
                   result, accAtExpiry, sinkAtExpiry>>

\* entering `with timeout(timeout_seconds)`: signal.signal, signal.alarm
Arm ==
    /\ cpc = "arm"
    /\ alarm' = "armed"
    /\ cpc' = "create"
    /\ UNCHANGED <<retryVars, mainVars, nestVars, sinkVars, streamVars>>
    /\ UNCHANGED <<stalled, anomalies, earlier>>
    /\ UNCHANGED <<full_response, sink, sinkBuf, fileOpen, delivered, eos,
                   chunk, after, result, accAtExpiry, sinkAtExpiry>>

\* client.chat.completions.create(...) returns the stream or raises
Create ==
    /\ cpc = "create"
    /\ ~stalled
    /\ \/ /\ cpc' = "next"
          /\ after' = after
       \/ /\ cpc' = "disarm"
          /\ after' = "error"
    /\ UNCHANGED <<retryVars, mainVars, nestVars, sinkVars, streamVars>>
    /\ UNCHANGED <<stalled, anomalies, earlier>>
    /\ UNCHANGED <<full_response, sink, sinkBuf, fileOpen, alarm, delivered,
                   eos, chunk, result, accAtExpiry, sinkAtExpiry>>

\* for chunk in completion: the channel delivers the next chunk
ChannelDeliver ==
    /\ cpc = "next"
    /\ ~stalled
    /\ Len(delivered) < MaxChunks
    /\ \E c \in Chunks :
        /\ delivered' = Append(delivered, c)
        /\ chunk' = c
    /\ cpc' = "extract"
    /\ UNCHANGED <<retryVars, mainVars, nestVars, sinkVars, streamVars>>
    /\ UNCHANGED <<stalled, anomalies, earlier>>
    /\ UNCHANGED <<full_response, sink, sinkBuf, fileOpen, alarm, eos, after,
                   result, accAtExpiry, sinkAtExpiry>>

\* for chunk in completion: the channel signals end-of-stream
ChannelEOS ==
    /\ cpc = "next"
    /\ ~stalled
    /\ eos' = TRUE
    /\ cpc' = "complete"
    /\ UNCHANGED <<retryVars, mainVars, nestVars, sinkVars, streamVars>>
    /\ UNCHANGED <<stalled, anomalies, earlier>>
    /\ UNCHANGED <<full_response, sink, sinkBuf, fileOpen, alarm, delivered,
                   chunk, after, result, accAtExpiry, sinkAtExpiry>>

\* for chunk in completion: the channel fails, the iterator raises
ChannelError ==
    /\ cpc = "next"
    /\ ~stalled
    /\ after' = "error"
    /\ cpc' = "disarm"
    /\ UNCHANGED <<retryVars, mainVars, nestVars, sinkVars, streamVars>>
    /\ UNCHANGED <<stalled, anomalies, earlier>>
    /\ UNCHANGED <<full_response, sink, sinkBuf, fileOpen, alarm, delivered,
                   eos, chunk, result, accAtExpiry, sinkAtExpiry>>

\* the peer goes silent while the program waits for it (connecting, or
\* waiting for the next chunk): nothing more ever arrives
ChannelStall ==
    /\ cpc \in {"create", "next"}
    /\ ~stalled
    /\ stalled' = TRUE
    /\ UNCHANGED <<retryVars, mainVars, nestVars, sinkVars, streamVars>>
    /\ UNCHANGED <<anomalies, earlier>>
    /\ UNCHANGED <<cpc, full_response, sink, sinkBuf, fileOpen, alarm,
                   delivered, eos, chunk, after, result, accAtExpiry,
                   sinkAtExpiry>>

\* if chunk.choices and chunk.choices[0].delta and ...delta.content
Extract ==
    /\ cpc = "extract"
    /\ cpc' = CASE chunk.kind = "bad" -> "chunk_error"
                [] chunk.kind = "empty" -> "next"
                [] OTHER -> "accum"
    /\ UNCHANGED <<retryVars, mainVars, nestVars, sinkVars, streamVars>>
    /\ UNCHANGED <<stalled, anomalies, earlier>>
    /\ UNCHANGED <<full_response, sink, sinkBuf, fileOpen, alarm, delivered,
                   eos, chunk, after, result, accAtExpiry, sinkAtExpiry>>

\* full_response += chunk_content
AccumulateChunk ==
    /\ cpc = "accum"
    /\ full_response' = Accumulate(full_response, chunk.content)
    /\ cpc' = "write"
    /\ UNCHANGED <<retryVars, mainVars, nestVars, sinkVars, streamVars>>
    /\ UNCHANGED <<stalled, anomalies, earlier>>
    /\ UNCHANGED <<sink, sinkBuf, fileOpen, alarm, delivered, eos, chunk,
                   after, result, accAtExpiry, sinkAtExpiry>>

\* response_file.write(chunk_content): appends to the file buffer or raises
WriteChunk ==
    /\ cpc = "write"
    /\ \/ /\ sinkBuf' = sinkBuf \o chunk.content
          /\ cpc' = "flush"
       \/ /\ cpc' = "chunk_error"
          /\ sinkBuf' = sinkBuf
    /\ UNCHANGED <<retryVars, mainVars, nestVars, sinkVars, streamVars>>
    /\ UNCHANGED <<stalled, anomalies, earlier>>
    /\ UNCHANGED <<full_response, sink, fileOpen, alarm, delivered, eos,
                   chunk, after, result, accAtExpiry, sinkAtExpiry>>

\* response_file.flush(): pushes the buffer to the file or raises
FlushChunk ==
    /\ cpc = "flush"
    /\ \/ /\ sink' = sink \o sinkBuf
          /\ sinkBuf' = <<>>
          /\ cpc' = "print"
       \/ /\ cpc' = "chunk_error"
          /\ UNCHANGED <<sink, sinkBuf>>
    /\ UNCHANGED <<retryVars, mainVars, nestVars, sinkVars, streamVars>>
    /\ UNCHANGED <<stalled, anomalies, earlier>>
    /\ UNCHANGED <<full_response, fileOpen, alarm, delivered, eos, chunk,
                   after, result, accAtExpiry, sinkAtExpiry>>

\* print(chunk_content, end='', flush=True): echoes or raises
EchoChunk ==
    /\ cpc = "print"
    /\ cpc' \in {"next", "chunk_error"}
    /\ UNCHANGED <<retryVars, mainVars, nestVars, sinkVars, streamVars>>
    /\ UNCHANGED <<stalled, anomalies, earlier>>
    /\ UNCHANGED <<full_response, sink, sinkBuf, fileOpen, alarm, delivered,
                   eos, chunk, after, result, accAtExpiry, sinkAtExpiry>>

\* except Exception as chunk_error: print, traceback; the loop goes on
ChunkError ==
    /\ cpc = "chunk_error"
    /\ anomalies' = anomalies + 1
    /\ cpc' = ChunkErrorNext
    /\ UNCHANGED <<retryVars, mainVars, nestVars, sinkVars, streamVars>>
    /\ UNCHANGED <<stalled, earlier>>
    /\ UNCHANGED <<full_response, sink, sinkBuf, fileOpen, alarm, delivered,
                   eos, chunk, after, result, accAtExpiry, sinkAtExpiry>>

\* print("\n--- Stream Complete ---"), then the timed block is left
StreamComplete ==
    /\ cpc = "complete"
    /\ after' = "return"
    /\ cpc' = "disarm"
    /\ UNCHANGED <<retryVars, mainVars, nestVars, sinkVars, streamVars>>
    /\ UNCHANGED <<stalled, anomalies, earlier>>
    /\ UNCHANGED <<full_response, sink, sinkBuf, fileOpen, alarm, delivered,
                   eos, chunk, result, accAtExpiry, sinkAtExpiry>>

\* the alarm goes off: _handle_timeout raises TimeoutException at the
\* statement being executed.  Inside the inner try it is caught by
\* `except Exception`; elsewhere it leaves the timed block through the
\* finally clause, or from within the finally clause itself.
Expire ==
    /\ alarm = "armed"
    /\ cpc \in InnerTry \cup OuterTimed
    /\ alarm' = "fired"
    /\ accAtExpiry' = Len(full_response)
    /\ sinkAtExpiry' = Len(SinkText)
    /\ CASE cpc \in InnerTry ->
              /\ cpc' = "chunk_error"
              /\ after' = after
         [] cpc = "disarm" ->
              /\ cpc' = "timed_out"
              /\ after' = "timeout"
         [] OTHER ->
              /\ cpc' = "disarm"
              /\ after' = "timeout"
    /\ UNCHANGED <<retryVars, mainVars, nestVars, sinkVars, streamVars>>
    /\ UNCHANGED <<stalled, anomalies, earlier>>
    /\ UNCHANGED <<full_response, sink, sinkBuf, fileOpen, delivered, eos,
                   chunk, result>>

\* finally: signal.alarm(0)
Disarm ==
    /\ cpc = "disarm"
    /\ alarm' = AlarmCancelled(alarm)
    /\ cpc' = IF after = "timeout" THEN "timed_out" ELSE "close"
    /\ UNCHANGED <<retryVars, mainVars, nestVars, sinkVars, streamVars>>
    /\ UNCHANGED <<stalled, anomalies, earlier>>
    /\ UNCHANGED <<full_response, sink, sinkBuf, fileOpen, delivered, eos,
                   chunk, after, result, accAtExpiry, sinkAtExpiry>>

\* except TimeoutException: print the banner, return None
TimedOut ==
    /\ cpc = "timed_out"
    /\ cpc' = "close"
    /\ UNCHANGED <<retryVars, mainVars, nestVars, sinkVars, streamVars>>
    /\ UNCHANGED <<stalled, anomalies, earlier>>
    /\ UNCHANGED <<full_response, sink, sinkBuf, fileOpen, alarm, delivered,
                   eos, chunk, after, result, accAtExpiry, sinkAtExpiry>>

\* leaving `with open(...)`: the file is flushed and closed; then the
\* pending return or exception takes effect
CloseSink ==
    /\ cpc = "close"
    /\ sink' = sink \o sinkBuf
    /\ sinkBuf' = <<>>
    /\ fileOpen' = FALSE
    /\ CASE after = "return" ->
              /\ result' = StrValue(full_response)
              /\ cpc' = "done"
         [] after = "timeout" ->
              /\ result' = TimeoutReturn(full_response)
              /\ cpc' = "done"
         [] OTHER ->
              /\ result' = result
              /\ cpc' = "failed"
    /\ UNCHANGED <<retryVars, mainVars, nestVars, sinkVars, streamVars>>
    /\ UNCHANGED <<stalled, anomalies, earlier>>
    /\ UNCHANGED <<full_response, alarm, delivered, eos, chunk, after,
                   accAtExpiry, sinkAtExpiry>>

\* except Exception as e: print the details, return None
Failed ==
    /\ cpc = "failed"
    /\ result' = NoneValue
    /\ cpc' = "done"
    /\ UNCHANGED <<retryVars, mainVars, nestVars, sinkVars, streamVars>>
    /\ UNCHANGED <<stalled, anomalies, earlier>>
    /\ UNCHANGED <<full_response, sink, sinkBuf, fileOpen, alarm, delivered,
                   eos, chunk, after, accAtExpiry, sinkAtExpiry>>

\* steps the interpreter takes on its own
ProgramStep ==
    \/ OpenSink
    \/ Arm
    \/ Extract
    \/ AccumulateChunk
    \/ WriteChunk
    \/ FlushChunk
    \/ EchoChunk
    \/ ChunkError
    \/ StreamComplete
    \/ Disarm
    \/ TimedOut
    \/ CloseSink
    \/ Failed

\* steps that depend on the remote peer
ChannelStep ==
    \/ Create
    \/ ChannelDeliver
    \/ ChannelEOS
    \/ ChannelError
    \/ ChannelStall

ComplNext ==
    \/ ProgramStep
    \/ ChannelStep
    \/ Expire

(***************************************************************************)
(* Specifications                                                          *)
(***************************************************************************)
\* one call of retry_with_backoff
SpecRetry ==
    /\ RetryInit
    /\ [][RetryNext]_vars

\* one call of create_completion
SpecCompletion ==
    /\ ComplInit
    /\ [][ComplNext]_vars

\* one call of create_completion in which the interpreter keeps running and
\* an armed alarm does go off; the peer is free to stall
FairCompletion ==
    /\ SpecCompletion
    /\ WF_vars(ProgramStep)
    /\ WF_vars(Expire)

(***************************************************************************)
(* Observations on a retry_with_backoff call                                *)
(***************************************************************************)
CallIdx == {i \in 1..Len(trace) : trace[i].ev = "call"}
SleepIdx == {i \in 1..Len(trace) : trace[i].ev = "sleep"}
NumCalls == Cardinality(CallIdx)
NumSleeps == Cardinality(SleepIdx)

\* 1-based number of the attempt made at position i of the trace
AttemptNo(i) == Cardinality({j \in CallIdx : j <= i})

\* the contract of the spec: 0 < baseDelay <= maxDelay
ValidBackoff == base_delay > 0 /\ base_delay <= max_delay

\* no time.sleep argument can be negative
SleepableDelays == base_delay >= 0 /\ max_delay >= 0

AllCallsRetryable == \A i \in CallIdx : trace[i].res.kind = "RetryableError"

\* C1: with 0 < baseDelay <= maxDelay, nothing is slept before attempt 1,
\* exactly one delay min(baseDelay * 2^(n-2), maxDelay) is slept right before
\* attempt n >= 2, and the delays slept are non-decreasing, never above
\* maxDelay, and stay at maxDelay once they reach it.
C1_DelaySchedule ==
    ValidBackoff =>
        /\ \A i \in CallIdx :
            IF AttemptNo(i) = 1
              THEN i = 1
              ELSE /\ trace[i - 1].ev = "sleep"
                   /\ trace[i - 1].d =
                        Min(base_delay * Pow2(AttemptNo(i) - 2), max_delay)
                   /\ trace[i - 2].ev = "call"
        /\ \A i \in SleepIdx : trace[i].d <= max_delay
        /\ \A i \in SleepIdx : \A j \in SleepIdx :
            i < j => /\ trace[i].d <= trace[j].d
                     /\ (trace[i].d = max_delay => trace[j].d = max_delay)

\* the scenario maxRetries=3, baseDelay=1, maxDelay=60: two retryable
\* failures, then success; the delays slept are [1, 2]
C1_Witness ==
    /\ max_retries = 3 /\ base_delay = 1 /\ max_delay = DefaultMaxDelay
    /\ rpc = "done"
    /\ outcome.kind = "returned"
    /\ Len(trace) = 5
    /\ trace[2] = SleepEv(1)
    /\ trace[4] = SleepEv(2)
    /\ trace[5].ev = "call"

\* C2: the operation is never invoked more than maxRetries times, and when
\* every attempt fails with a retryable error (maxRetries >= 1, delays that
\* can be slept) it is invoked exactly maxRetries times and the call ends
\* with the exhaustion failure.
C2_ExactlyMaxRetries ==
    /\ NumCalls <= max_retries
    /\ (rpc = "done" /\ max_retries >= 1 /\ SleepableDelays /\ AllCallsRetryable)
          => /\ NumCalls = max_retries
             /\ outcome = [kind |-> "raised", val |-> ExhaustedMsg]

C2_Witness ==
    /\ rpc = "done"
    /\ max_retries = 3
    /\ NumCalls = 3
    /\ AllCallsRetryable
    /\ outcome = [kind |-> "raised", val |-> ExhaustedMsg]

\* C3: an attempt that raises a non-retryable error is the last thing the
\* call does: that same error is raised to the caller, nothing is logged or
\* slept for it and the operation is not invoked again.
C3_NonRetryablePropagates ==
    \A i \in CallIdx :
        trace[i].res.kind = "OtherError" =>
            /\ i = Len(trace)
            /\ rpc = "done"
            /\ outcome = [kind |-> "raised", val |-> trace[i].res.val]
            /\ Len(logs) = AttemptNo(i) - 1

\* a non-retryable error on attempt 2, after one retryable failure
C3_Witness ==
    /\ Len(trace) = 3
    /\ trace[1].res.kind = "RetryableError"
    /\ trace[3].res = [kind |-> "OtherError", val |-> "x2"]
    /\ outcome = [kind |-> "raised", val |-> "x2"]

\* C4: an attempt that succeeds is the last thing the call does: the value
\* it produced is returned, and no later invocation or delay follows.
C4_SuccessReturnsValue ==
    \A i \in CallIdx :
        trace[i].res.kind = "ok" =>
            /\ i = Len(trace)
            /\ rpc = "done"
            /\ outcome = [kind |-> "returned", val |-> trace[i].res.val]

\* success with value v2 on attempt 3
C4_Witness ==
    /\ NumCalls = 3
    /\ trace[Len(trace)].res = [kind |-> "ok", val |-> "v2"]
    /\ outcome = [kind |-> "returned", val |-> "v2"]

\* C5: a call that has made k >= 1 attempts has slept exactly k-1 delays
\* when it ends, so no delay separates the last failed attempt from the
\* exhaustion failure.
C5_DelayOnlyBeforeAttempt ==
    (rpc = "done" /\ ValidBackoff /\ NumCalls >= 1)
        => NumSleeps = NumCalls - 1

(***************************************************************************)
(* Observations on a create_completion call                                 *)
(***************************************************************************)
TextOf(c) == IF c.kind = "text" THEN c.content ELSE <<>>

RECURSIVE ConcatText(_)
ConcatText(cs) ==
    IF cs = <<>> THEN <<>> ELSE TextOf(Head(cs)) \o ConcatText(Tail(cs))

C7_NoConsumptionAfterExpiry ==
    Expired => /\ Len(full_response) = accAtExpiry
               /\ Len(SinkText) = sinkAtExpiry

\* C8: once the peer has stalled, the call eventually returns.
C8_EventuallyReturns == stalled ~> (cpc = "done")

\* C9: whenever a fragment has been handled, and at a timeout or failure
\* exit, the text written to the sink equals the accumulator.
C9_SinkEqualsAccumulator ==
    cpc \in {"next", "complete", "timed_out", "close"}
        => SinkText = full_response

\* C10: when the channel signals end-of-stream and the alarm never went off,
\* the call returns the concatenation, in arrival order, of the text of all
\* delivered chunks.
C10_CompleteConcatenation ==
    (cpc = "done" /\ eos /\ ~Expired)
        => result = StrValue(ConcatText(delivered))

\* "a", "bc", "a", then end-of-stream
C10_Witness ==
    /\ cpc = "done"
    /\ eos
    /\ ~Expired
    /\ Len(delivered) = 3
    /\ delivered[1].content = <<"a">>
    /\ delivered[2].content = <<"b", "c">>
    /\ delivered[3].content = <<"a">>
    /\ result = StrValue(<<"a", "b", "c", "a">>)

\* number of malformed chunks among cs
NumBad(cs) == Cardinality({k \in 1..Len(cs) : cs[k].kind = "bad"})

\* C11: a chunk whose extraction or processing fails is reported and the
\* loop goes on: every malformed chunk handled so far has been reported, and
\* a call that reported such failures still returns, after end-of-stream,
\* the text of all well-formed chunks in arrival order.
C11_BadFragmentSkipped ==
    /\ cpc \in {"next", "complete"} => anomalies >= NumBad(delivered)
    /\ (cpc = "done" /\ after = "return" /\ ~Expired /\ anomalies >= 1)
          => /\ eos
             /\ result = StrValue(ConcatText(delivered))

\* "a", a malformed chunk, "bc", then end-of-stream
C11_Witness ==
    /\ cpc = "done"
    /\ after = "return"
    /\ ~Expired
    /\ Len(delivered) = 3
    /\ delivered[1].content = <<"a">>
    /\ delivered[2].kind = "bad"
    /\ delivered[3].content = <<"b", "c">>
    /\ anomalies = 1
    /\ result = StrValue(<<"a", "b", "c">>)

\* index in the trace of attempt number k
CallAt(k) == CHOOSE i \in CallIdx : AttemptNo(i) = k

\* C14: with a non-positive max_retries, base_delay or max_delay the
\* operation is never invoked, nothing is slept, and the call ends with an
\* error other than the exhaustion failure.
C14_InvalidBackoffRejected ==
    (max_retries <= 0 \/ base_delay <= 0 \/ max_delay <= 0)
        => /\ NumCalls = 0
           /\ NumSleeps = 0
           /\ rpc = "done" => /\ outcome.kind = "raised"
                              /\ outcome.val # ExhaustedMsg

\* C15: each attempt that failed with a retryable error has exactly one log
\* record, written before its delay is slept, and the record carries the
\* 1-based attempt number and the error.
C15_FailureLogged ==
    /\ rpc \in {"sleep", "backoff"} => Len(logs) = NumCalls
    /\ NumSleeps <= Len(logs)
    /\ \A k \in 1..Len(logs) :
          logs[k] = "Attempt " \o ToString(k) \o " failed: "
                      \o trace[CallAt(k)].res.val

\* C16: when create_completion has returned, response_file is closed with
\* nothing left in its buffer and no alarm of the call is pending.
C16_ReleasedOnReturn ==
    cpc = "done" => /\ ~fileOpen
                    /\ sinkBuf = <<>>
                    /\ alarm # "armed"

\* the channel fails after a chunk was delivered
C16_Witness ==
    /\ cpc = "done"
    /\ after = "error"
    /\ Len(delivered) >= 1
    /\ alarm = "cancelled"
    /\ ~fileOpen

\* s can be obtained from t by deleting elements
RECURSIVE IsSubseq(_, _)
IsSubseq(s, t) ==
    IF s = <<>> THEN TRUE
    ELSE IF t = <<>> THEN FALSE
    ELSE IF Head(s) = Head(t) THEN IsSubseq(Tail(s), Tail(t))
    ELSE IsSubseq(s, Tail(t))

\* the call got past open()
Opened == fileOpen \/ alarm # "unset"

\* C19: once a call has opened the sink, the sink holds only text that this
\* call accumulated, in order (nothing when it accumulated nothing):
\* whatever an earlier call left there is gone.
C19_SinkHoldsOnlyLatest ==
    Opened => IsSubseq(SinkText, full_response)

\* response.txt held "abc"; the call then streamed "bc" and returned
C19_Witness ==
    /\ earlier = <<"a", "b", "c">>
    /\ cpc = "done"
    /\ after = "return"
    /\ full_response = <<"b", "c">>
    /\ sink = <<"b", "c">>

(***************************************************************************)
(* retry_with_backoff(lambda: create_completion(...))                      *)
(***************************************************************************)
PropagatesChannelError(a) == a = "error"
\* create_completion ends every path with a return: `except Exception as e`
\* (lines 65-71) turns any failure into `return None`, so no exception
\* reaches the caller
Propagates(a) == FALSE

\* the state before the wrapped call, with the default delays
WrappedInit ==
    /\ ComplParked
    /\ MainParked /\ NestParked /\ SinkParked /\ StreamParked
    /\ max_retries \in 0..MaxRetriesBound
    /\ base_delay = 1
    /\ max_delay = DefaultMaxDelay
    /\ retries = 0
    /\ delay = base_delay
    /\ rpc = "loop"
    /\ caught = NoRes
    /\ trace = <<>>
    /\ logs = <<>>
    /\ outcome = NoOutcome

\* `try: return func()`: func is entered, create_completion starts afresh
WrappedCall ==
    /\ rpc = "loop"
    /\ LoopGuard(retries, max_retries)
    /\ cpc \in {"parked", "done"}
    /\ rpc' = "in_func"
    /\ cpc' = "start"
    /\ full_response' = <<>>
    /\ earlier' = sink
    /\ sinkBuf' = <<>>
    /\ fileOpen' = FALSE
    /\ alarm' = "unset"
    /\ delivered' = <<>>
    /\ eos' = FALSE
    /\ stalled' = FALSE
    /\ chunk' = NoChunk
    /\ after' = "none"
    /\ result' = NotReturned
    /\ accAtExpiry' = -1
    /\ sinkAtExpiry' = -1
    /\ anomalies' = 0
    /\ UNCHANGED <<mainVars, nestVars, sinkVars, streamVars>>
    /\ UNCHANGED <<max_retries, base_delay, max_delay, retries, delay, caught,
                   trace, logs, outcome, sink>>

\* create_completion has ended: func() returns its value, or raises what
\* create_completion let through
WrappedReturn ==
    /\ rpc = "in_func"
    /\ cpc = "done"
    /\ LET res == IF Propagates(after)
                    THEN [kind |-> "RetryableError", val |-> "r1"]
                    ELSE [kind |-> "ok", val |-> result]
       IN /\ trace' = Append(trace, CallEv(res))
          /\ IF res.kind = "ok"
               THEN /\ outcome' = [kind |-> "returned", val |-> Returned(res)]
                    /\ rpc' = "done"
                    /\ caught' = caught
               ELSE IF Catches(res)
                      THEN /\ caught' = res
                           /\ rpc' = "log"
                           /\ outcome' = outcome
                      ELSE /\ outcome' = [kind |-> "raised", val |-> res.val]
                           /\ rpc' = "done"
                           /\ caught' = caught
    /\ UNCHANGED <<complVars, mainVars, nestVars, sinkVars, streamVars>>
    /\ UNCHANGED <<max_retries, base_delay, max_delay, retries, delay, logs>>

\* between WrappedCall and WrappedReturn the steps of create_completion run
WrappedNext ==
    \/ WrappedCall
    \/ ComplNext
    \/ WrappedReturn
    \/ Exhausted

\* one call of retry_with_backoff around create_completion
SpecWrapped ==
    /\ WrappedInit
    /\ [][WrappedNext]_vars

\* the call has passed open() and a channel failure ended it before any chunk
FailedBeforeData == after = "error" /\ alarm # "unset" /\ delivered = <<>>

IsSpace(c) == c \in {" ", "\n"}

RECURSIVE LStrip(_)
LStrip(t) ==
    IF t = <<>> THEN <<>>
    ELSE IF IsSpace(Head(t)) THEN LStrip(Tail(t))
    ELSE t

RECURSIVE RStrip(_)
RStrip(t) ==
    IF t = <<>> THEN <<>>
    ELSE IF IsSpace(t[Len(t)]) THEN RStrip(SubSeq(t, 1, Len(t) - 1))
    ELSE t

\* str.strip()
Strip(t) == RStrip(LStrip(t))

\* prompt.txt is missing or unreadable, or holds one of these texts
PromptTexts == {<<>>, <<" ">>, <<" ", "\n">>, <<"h">>, <<" ", "h", "\n">>}
PromptFiles ==
    [readable : {FALSE}, text : {<<>>}]
        \cup [readable : {TRUE}, text : PromptTexts]

PromptEmptyMsg == "Error: Prompt is empty"
NoCompletionMsg == "Error: No completion generated"

\* the state when main is about to call get_prompt
MainInit ==
    /\ RetryParked
    /\ ComplParked
    /\ NestParked /\ SinkParked /\ StreamParked
    /\ mpc = "get_prompt"
    /\ promptFile \in PromptFiles
    /\ prompt = NotReturned
    /\ report = "none"

\* prompt = get_prompt(): f.read().strip(), or None when reading fails
GetPrompt ==
    /\ mpc = "get_prompt"
    /\ prompt' = IF promptFile.readable
                   THEN StrValue(Strip(promptFile.text))
                   ELSE NoneValue
    /\ mpc' = "check"
    /\ UNCHANGED <<retryVars, complVars, nestVars, sinkVars, streamVars>>
    /\ UNCHANGED <<promptFile, report>>

\* if prompt is None: print("Error: Prompt is empty"); return
\* otherwise create_completion(openai, model, prompt, timeout_seconds=900)
CheckPrompt ==
    /\ mpc = "check"
    /\ IF prompt = NoneValue
         THEN /\ report' = PromptEmptyMsg
              /\ mpc' = "done"
              /\ cpc' = cpc
         ELSE /\ report' = report
              /\ mpc' = "call"
              /\ cpc' = "start"
    /\ UNCHANGED <<retryVars, nestVars, sinkVars, streamVars>>
    /\ UNCHANGED <<promptFile, prompt>>
    /\ UNCHANGED <<full_response, sink, sinkBuf, fileOpen, alarm, delivered,
                   eos, stalled, chunk, after, result, accAtExpiry,
                   sinkAtExpiry, anomalies, earlier>>

\* if completion is None: print("Error: No completion generated"); return
MainReturn ==
    /\ mpc = "call"
    /\ cpc = "done"
    /\ report' = IF result = NoneValue THEN NoCompletionMsg ELSE report
    /\ mpc' = "done"
    /\ UNCHANGED <<retryVars, complVars, nestVars, sinkVars, streamVars>>
    /\ UNCHANGED <<promptFile, prompt>>

\* between CheckPrompt and MainReturn the steps of create_completion run
MainNext ==
    \/ GetPrompt
    \/ CheckPrompt
    \/ ComplNext
    \/ MainReturn

\* one run of main
SpecMain ==
    /\ MainInit
    /\ [][MainNext]_vars

\* prompt.txt can be read and holds nothing but whitespace
EmptyPromptFile == promptFile.readable /\ Strip(promptFile.text) = <<>>

\* C13: with an empty or whitespace-only prompt file, create_completion is
\* never entered (no request, response.txt never opened) and main ends by
\* reporting the empty prompt.
C13_EmptyPromptRejected ==
    EmptyPromptFile
        => /\ cpc = "parked"
           /\ ~fileOpen
           /\ mpc = "done" => report = PromptEmptyMsg

(***************************************************************************)
(* timeout(): block 2 entered while block 1 is still active, in the one    *)
(* thread that may use signals; each block's TimeoutException is caught by *)
(* the code that entered it, as create_completion does (line 59)           *)
(***************************************************************************)
\* the block whose body is executing
Innermost == IF tpc[2] = "in" THEN 2 ELSE 1

\* the state before block 1 is entered
NestInit ==
    /\ RetryParked
    /\ ComplParked
    /\ MainParked /\ SinkParked /\ StreamParked
    /\ now = 0
    /\ alarmAt = 0
    /\ handler = 0
    /\ tpc = [i \in 1..2 |-> "out"]
    /\ seconds \in [1..2 -> 1..MaxSeconds]
    /\ enteredAt = [i \in 1..2 |-> 0]

\* signal.signal(signal.SIGALRM, _handle_timeout); signal.alarm(seconds):
\* the process has one handler and one alarm, both are replaced
Enter(i) ==
    /\ tpc[i] = "out"
    /\ i = 2 => tpc[1] = "in"
    /\ handler' = i
    /\ alarmAt' = now + seconds[i]
    /\ enteredAt' = [enteredAt EXCEPT ![i] = now]
    /\ tpc' = [tpc EXCEPT ![i] = "in"]
    /\ UNCHANGED <<retryVars, complVars, mainVars, sinkVars, streamVars>>
    /\ UNCHANGED <<now, seconds>>

\* the body ends; finally: signal.alarm(0) cancels whatever alarm is pending
Leave(i) ==
    /\ tpc[i] = "in"
    /\ i = Innermost
    /\ alarmAt' = 0
    /\ tpc' = [tpc EXCEPT ![i] = "left"]
    /\ UNCHANGED <<retryVars, complVars, mainVars, sinkVars, streamVars>>
    /\ UNCHANGED <<now, handler, seconds, enteredAt>>

\* a second passes and no alarm is due
Tick ==
    /\ now < MaxTime
    /\ tpc[1] = "in"
    /\ alarmAt # now + 1
    /\ now' = now + 1
    /\ UNCHANGED <<retryVars, complVars, mainVars, sinkVars, streamVars>>
    /\ UNCHANGED <<alarmAt, handler, tpc, seconds, enteredAt>>

\* a second passes and the alarm is due: the installed _handle_timeout
\* raises TimeoutException in the code that is executing, which leaves the
\* innermost block through its finally clause
Fire ==
    /\ alarmAt = now + 1
    /\ now' = now + 1
    /\ alarmAt' = 0
    /\ tpc' = [tpc EXCEPT ![Innermost] = "timed_out"]
    /\ UNCHANGED <<retryVars, complVars, mainVars, sinkVars, streamVars>>
    /\ UNCHANGED <<handler, seconds, enteredAt>>

NestNext ==
    \/ \E i \in 1..2 : Enter(i)
    \/ \E i \in 1..2 : Leave(i)
    \/ Tick
    \/ Fire

\* two nested timeout() blocks
SpecNested ==
    /\ NestInit
    /\ [][NestNext]_vars

\* C17: each block's deadline is enforced on its own: no block is still
\* executing once its seconds have elapsed, and a block is timed out only
\* when its own seconds have elapsed.
C17_IndependentDeadlines ==
    \A i \in 1..2 :
        /\ tpc[i] = "in" => now < enteredAt[i] + seconds[i]
        /\ tpc[i] = "timed_out" => now >= enteredAt[i] + seconds[i]

(***************************************************************************)
(* Two runs of create_completion in flight at once: each opens the same    *)
(* path ".reference/inference_example/response.txt" with its own file      *)
(* object, writes and flushes its chunks, and closes it                    *)
(***************************************************************************)
\* the file after `data` is written at offset off; a gap beyond the end of
\* the file reads back as NUL characters
WriteAt(f, off, data) ==
    LET padded == IF Len(f) < off
                    THEN f \o [k \in 1..(off - Len(f)) |-> "NUL"]
                    ELSE f
    IN SubSeq(padded, 1, off) \o data
         \o SubSeq(padded, off + Len(data) + 1, Len(padded))

\* the state before either run opens the file
SinkInit ==
    /\ RetryParked
    /\ ComplParked
    /\ MainParked /\ NestParked /\ StreamParked
    /\ wpc = [i \in 1..2 |-> "idle"]
    /\ wfile = <<>>
    /\ woff = [i \in 1..2 |-> 0]
    /\ wtext = [i \in 1..2 |-> <<>>]

\* with open(".../response.txt", "w", encoding="utf-8") as response_file
WOpen(i) ==
    /\ wpc[i] = "idle"
    /\ wfile' = OpenedForWrite(wfile)
    /\ woff' = [woff EXCEPT ![i] = 0]
    /\ wpc' = [wpc EXCEPT ![i] = "open"]
    /\ UNCHANGED <<retryVars, complVars, mainVars, nestVars, streamVars>>
    /\ UNCHANGED wtext

\* response_file.write(chunk_content); response_file.flush()
WWrite(i) ==
    /\ wpc[i] = "open"
    /\ Len(wtext[i]) < MaxWrites
    /\ \E c \in Fragments :
        /\ wfile' = WriteAt(wfile, woff[i], c)
        /\ woff' = [woff EXCEPT ![i] = woff[i] + Len(c)]
        /\ wtext' = [wtext EXCEPT ![i] = wtext[i] \o c]
    /\ UNCHANGED <<retryVars, complVars, mainVars, nestVars, streamVars>>
    /\ UNCHANGED wpc

\* leaving `with open(...)`
WClose(i) ==
    /\ wpc[i] = "open"
    /\ wpc' = [wpc EXCEPT ![i] = "closed"]
    /\ UNCHANGED <<retryVars, complVars, mainVars, nestVars, streamVars>>
    /\ UNCHANGED <<wfile, woff, wtext>>

SinkNext ==
    \/ \E i \in 1..2 : WOpen(i)
    \/ \E i \in 1..2 : WWrite(i)
    \/ \E i \in 1..2 : WClose(i)

\* two runs sharing response.txt
SpecSink ==
    /\ SinkInit
    /\ [][SinkNext]_vars

\* C18: while both runs have the file open, the file is the text of one run
\* alone, and the text each run has written is still there, intact.
C18_SinkExclusive ==
    (wpc[1] = "open" /\ wpc[2] = "open")
        => /\ wfile \in {wtext[1], wtext[2]}
           /\ \A i \in 1..2 :
                /\ Len(wfile) >= Len(wtext[i])
                /\ SubSeq(wfile, 1, Len(wtext[i])) = wtext[i]

(***************************************************************************)
(* OpenAIClient.stream_completion and the loop of main that consumes it    *)
(* (openai-streaming-client/src/main.py)                                   *)
(***************************************************************************)
EchoesAll(item) == TRUE
\* if chunk:
Truthy(item) == item.kind = "str" /\ item.val # <<>>

\* what print(chunk, end='') writes
Rendered(item) ==
    IF item.kind = "None" THEN <<"N", "o", "n", "e">> ELSE item.val

\* the state when main starts iterating the generator
StreamInit ==
    /\ RetryParked
    /\ ComplParked
    /\ MainParked /\ NestParked /\ SinkParked
    /\ gpc = "create"
    /\ gchunks = <<>>
    /\ gchunk = NoChunk
    /\ gfailed = FALSE
    /\ yielded = <<>>
    /\ echoed = <<>>

\* response = openai.ChatCompletion.create(...): returns the stream or raises
GenCreate ==
    /\ gpc = "create"
    /\ \/ /\ gpc' = "next"
          /\ gfailed' = gfailed
       \/ /\ gpc' = "except"
          /\ gfailed' = TRUE
    /\ UNCHANGED <<retryVars, complVars, mainVars, nestVars, sinkVars>>
    /\ UNCHANGED <<gchunks, gchunk, yielded, echoed>>

\* for chunk in response: the next chunk arrives
GenDeliver ==
    /\ gpc = "next"
    /\ Len(gchunks) < MaxChunks
    /\ \E c \in Chunks :
        /\ gchunks' = Append(gchunks, c)
        /\ gchunk' = c
    /\ gpc' = "test"
    /\ UNCHANGED <<retryVars, complVars, mainVars, nestVars, sinkVars>>
    /\ UNCHANGED <<gfailed, yielded, echoed>>

\* for chunk in response: the response is exhausted, the generator returns
GenEOS ==
    /\ gpc = "next"
    /\ gpc' = "end"
    /\ UNCHANGED <<retryVars, complVars, mainVars, nestVars, sinkVars>>
    /\ UNCHANGED <<gchunks, gchunk, gfailed, yielded, echoed>>

\* for chunk in response: the iteration raises
GenIterError ==
    /\ gpc = "next"
    /\ gfailed' = TRUE
    /\ gpc' = "except"
    /\ UNCHANGED <<retryVars, complVars, mainVars, nestVars, sinkVars>>
    /\ UNCHANGED <<gchunks, gchunk, yielded, echoed>>

\* if chunk.choices[0].delta.get('content'): raises on a malformed chunk
GenTest ==
    /\ gpc = "test"
    /\ CASE gchunk.kind = "bad" ->
              /\ gfailed' = TRUE
              /\ gpc' = "except"
         [] gchunk.kind = "empty" ->
              /\ gfailed' = gfailed
              /\ gpc' = "next"
         [] OTHER ->
              /\ gfailed' = gfailed
              /\ gpc' = "yield"
    /\ UNCHANGED <<retryVars, complVars, mainVars, nestVars, sinkVars>>
    /\ UNCHANGED <<gchunks, gchunk, yielded, echoed>>

\* yield chunk.choices[0].delta.content
GenYield ==
    /\ gpc = "yield"
    /\ yielded' = Append(yielded, StrValue(gchunk.content))
    /\ gpc' = "consume"
    /\ UNCHANGED <<retryVars, complVars, mainVars, nestVars, sinkVars>>
    /\ UNCHANGED <<gchunks, gchunk, gfailed, echoed>>

\* except Exception as e: print(...); yield None
GenExcept ==
    /\ gpc = "except"
    /\ yielded' = Append(yielded, NoneValue)
    /\ gpc' = "consume"
    /\ UNCHANGED <<retryVars, complVars, mainVars, nestVars, sinkVars>>
    /\ UNCHANGED <<gchunks, gchunk, gfailed, echoed>>

\* main: if chunk: print(chunk, end='', flush=True); then the generator is
\* resumed: after `yield None` it runs off its end
Consume ==
    /\ gpc = "consume"
    /\ LET item == yielded[Len(yielded)]
       IN echoed' = IF Truthy(item) THEN echoed \o Rendered(item) ELSE echoed
    /\ gpc' = IF gfailed THEN "end" ELSE "next"
    /\ UNCHANGED <<retryVars, complVars, mainVars, nestVars, sinkVars>>
    /\ UNCHANGED <<gchunks, gchunk, gfailed, yielded>>

StreamNext ==
    \/ GenCreate
    \/ GenDeliver
    \/ GenEOS
    \/ GenIterError
    \/ GenTest
    \/ GenYield
    \/ GenExcept
    \/ Consume

\* main of main.py consuming one stream_completion
SpecStream ==
    /\ StreamInit
    /\ [][StreamNext]_vars

\* the items a sequence of chunks should give rise to
RECURSIVE TextItems(_)
TextItems(cs) ==
    IF cs = <<>> THEN <<>>
    ELSE (IF Head(cs).kind = "text" THEN <<StrValue(Head(cs).content)>>
                                    ELSE <<>>)
           \o TextItems(Tail(cs))

\* the items yielded before the closing None, if there is one
YieldedFragments ==
    IF yielded # <<>> /\ yielded[Len(yielded)] = NoneValue
      THEN SubSeq(yielded, 1, Len(yielded) - 1)
      ELSE yielded

\* C20: None is never followed by another item; whenever a chunk has been
\* dealt with, the items yielded are the contents of the text chunks in
\* arrival order and main has echoed exactly those; and when the generator
\* has ended, it closed with a None exactly if the request or the
\* iteration failed.
C20_StreamYields ==
    /\ \A k \in 1..(Len(yielded) - 1) : yielded[k] # NoneValue
    /\ gpc \in {"next", "end"} =>
          /\ YieldedFragments = TextItems(gchunks)
          /\ echoed = ConcatText([k \in 1..Len(YieldedFragments) |->
                          [kind |-> "text", content |-> YieldedFragments[k].val]])
    /\ gpc = "end" =>
          (gfailed <=> (yielded # <<>> /\ yielded[Len(yielded)] = NoneValue))

\* "a", "bc", then the iteration fails
C20_Witness ==
    /\ gpc = "end"
    /\ gfailed
    /\ yielded = <<StrValue(<<"a">>), StrValue(<<"b", "c">>), NoneValue>>
    /\ echoed = <<"a", "b", "c">>

====
